---- MODULE Spec2Model ----
(***************************************************************************)
(* Model of src/bot.py: the answer-resolution cascade of the DHV bot.      *)
(* Text is a sequence of characters; a character is one of the tokens of   *)
(* Alphabet.  Scores are kept as exact fractions (2*M over T).             *)
(***************************************************************************)
EXTENDS Integers, Sequences, FiniteSets, TLC

(***************************************************************************)
(* Characters and text                                                     *)
(***************************************************************************)
TAB == "TAB"
Letters ==
    {"a", "b", "c", "d", "e", "f", "g", "h", "i", "j", "k", "l", "m", "n", "o", "p", "q",
     "r", "s", "t", "u", "v", "w", "A", "B", "C"}
Alphabet == Letters \cup {" ", "?", TAB}

\* str.isprintable(): the tab is the only non-printable character here
IsPrintable(ch) == ch # TAB
\* \s of the re module, and what str.strip() removes
IsSpace(ch) == ch \in {" ", TAB}
\* \w of the re module
IsWord(ch) == ch \in Letters
\* str.lower() on one character
LowerChar(ch) == CASE ch = "A" -> "a" [] ch = "B" -> "b" [] ch = "C" -> "c" [] OTHER -> ch

Lower(s) == [i \in 1..Len(s) |-> LowerChar(s[i])]

RECURSIVE LStrip(_)
LStrip(s) == IF s # <<>> /\ IsSpace(Head(s)) THEN LStrip(Tail(s)) ELSE s

RECURSIVE RStrip(_)
RStrip(s) == IF s # <<>> /\ IsSpace(s[Len(s)]) THEN RStrip(SubSeq(s, 1, Len(s) - 1)) ELSE s

\* str.strip()
Strip(s) == RStrip(LStrip(s))

\* "".join(char for char in text if char.isprintable())
KeepPrintable(s) == SelectSeq(s, IsPrintable)

\* re.sub(r"[^\w\s]", " ", text)
PunctToSpace(s) == [i \in 1..Len(s) |-> IF IsWord(s[i]) \/ IsSpace(s[i]) THEN s[i] ELSE " "]

\* re.sub(r"\s+", " ", text): every run of whitespace becomes one space
RECURSIVE CollapseSpaces(_)
CollapseSpaces(s) ==
    IF s = <<>> THEN <<>>
    ELSE IF IsSpace(Head(s))
         THEN <<" ">> \o CollapseSpaces(LStrip(s))
         ELSE <<Head(s)>> \o CollapseSpaces(Tail(s))

\* normalize_text
normalize_text(text) ==
    IF text = <<>> THEN <<>>
    ELSE Strip(CollapseSpaces(PunctToSpace(Lower(KeepPrintable(text)))))

\* Python's `x in y` for strings
IsSubstring(x, y) ==
    \E i \in 0..(Len(y) - Len(x)) : SubSeq(y, i + 1, i + Len(x)) = x

(***************************************************************************)
(* difflib.SequenceMatcher(None, a, b).ratio()                             *)
(***************************************************************************)
\* the blocks a[i..i+k-1] = b[j..j+k-1], k >= 1
CommonBlocks(a, b) ==
    {blk \in [i : 1..Len(a), j : 1..Len(b), k : 1..Len(a)] :
        /\ blk.i + blk.k - 1 <= Len(a)
        /\ blk.j + blk.k - 1 <= Len(b)
        /\ SubSeq(a, blk.i, blk.i + blk.k - 1) = SubSeq(b, blk.j, blk.j + blk.k - 1)}

\* find_longest_match: the longest block, the earliest in a, then the earliest in b
LongestMatch(a, b) ==
    LET blocks == CommonBlocks(a, b)
    IN  CHOOSE x \in blocks :
            \A y \in blocks :
                \/ x.k > y.k
                \/ x.k = y.k /\ x.i < y.i
                \/ x.k = y.k /\ x.i = y.i /\ x.j <= y.j

\* get_matching_blocks: the total size of the matching blocks
RECURSIVE Matches(_, _)
Matches(a, b) ==
    IF a = <<>> \/ b = <<>> \/ CommonBlocks(a, b) = {} THEN 0
    ELSE LET blk == LongestMatch(a, b)
         IN  blk.k
             + Matches(SubSeq(a, 1, blk.i - 1), SubSeq(b, 1, blk.j - 1))
             + Matches(SubSeq(a, blk.i + blk.k, Len(a)), SubSeq(b, blk.j + blk.k, Len(b)))

\* ratio(): 2.0 * matches / length, 1.0 when both are empty; kept as num / den
Ratio(a, b) ==
    IF Len(a) + Len(b) = 0 THEN [num |-> 1, den |-> 1]
    ELSE [num |-> 2 * Matches(a, b), den |-> Len(a) + Len(b)]

\* x > y and x >= y on fractions with positive denominators
ScoreGt(x, y) == x.num * y.den > y.num * x.den
ScoreGe(x, y) == x.num * y.den >= y.num * x.den

\* SIMILARITY_THRESHOLD = 0.85
SIMILARITY_THRESHOLD == [num |-> 85, den |-> 100]
ZeroScore == [num |-> 0, den |-> 1]

(***************************************************************************)
(* Values                                                                  *)
(***************************************************************************)
\* Python's None, and the strings that are false in `if x:`
None == "<None>"
Truthy(x) == x # None /\ x # ""

\* answers are atomic texts; Blank is a text of whitespace only
Blank == " "
StripText(t) == IF t = Blank THEN "" ELSE t

\* question texts: sequences of characters
Q_abc == <<"a", "b", "c">>
Q_ABCq == <<"A", "B", "C", "?">>
Q_abac == <<"a", "b", "a", "c">>
Q_cb == <<"c", "b">>
Q_punct == <<"?">>
Q_ab_sp == <<" ", "a", "b">>
Q_tab_q == <<TAB, "?", " ">>

\* texts of twenty letters: against Q_long the ratio of K_85 is 34/40, of
\* K_90 and K_90b 36/40, of K_80 32/40, and none contains another
Stem ==
    <<"a", "b", "c", "d", "e", "f", "g", "h", "i", "j", "k", "l", "m", "n", "o", "p", "q">>
Q_long == Stem \o <<"r", "s", "t">>
K_85 == Stem \o <<"u", "v", "w">>
K_90 == Stem \o <<"u", "s", "w">>
K_90b == Stem \o <<"r", "v", "w">>
K_80 == SubSeq(Stem, 1, 16) \o <<"w", "u", "v", "w">>
LongTexts == {Q_long, K_85, K_90, K_90b, K_80}

\* the questions callers ask
Questions == {Q_abc, Q_ABCq, Q_abac, Q_cb, Q_punct}

\* rows of the knowledge feed (columns Question and Response)
Row_abc == [Question |-> Q_abc, Response |-> "r1"]
Row_ab == [Question |-> Q_ab_sp, Response |-> "r2"]
Row_ABCq == [Question |-> Q_ABCq, Response |-> Blank]
Row_punct == [Question |-> Q_tab_q, Response |-> "r2"]
Row_noq == [Question |-> <<" ">>, Response |-> "r1"]
Row_abc2 == [Question |-> Q_abc, Response |-> "r2"]

\* the feeds the sheet may serve: the rows after the header line
Feeds ==
    { <<>>,
      <<Row_abc>>,
      <<Row_noq, Row_abc>>,
      <<Row_abc, Row_noq, Row_ab, Row_ABCq>>,
      <<Row_ab, Row_abc, Row_ABCq>>,
      <<Row_abc, Row_punct, Row_abc>>,
      <<Row_ab, Row_ABCq, Row_abc>>,
      <<Row_noq, Row_abc, Row_abc2>> }

\* every text the model compares: the questions asked and the questions of
\* the feed as load_knowledge_base stores them
KnownTexts ==
    Questions \cup LongTexts
        \cup UNION {{Strip(f[i].Question) : i \in 1..Len(f)} : f \in Feeds}

\* normalize_text and ratio() on these texts, computed once (@@ makes TLC
\* keep the values of the table, not the expression)
NormTable == [t \in KnownTexts |-> normalize_text(t)] @@ <<>>
Norm(text) == NormTable[text]

NormTexts == {NormTable[t] : t \in KnownTexts}
RatioTable == [p \in NormTexts \X NormTexts |-> Ratio(p[1], p[2])] @@ <<>>
Score(a, b) == RatioTable[<<a, b>>]

PLACEHOLDER == "I found a match but the response is empty."

(***************************************************************************)
(* State                                                                   *)
(***************************************************************************)
VARIABLES
    knowledge_base,   \* the global list of entries
    kb_last_loaded,   \* time of the last successful load, 0 before any
    load_ret,         \* how the last load_knowledge_base call ended: "True", "False", "raised"
    failure_count,    \* kb_auto_refresher's local
    wait,             \* seconds of kb_auto_refresher's last time.sleep
    iter,             \* iterations kb_auto_refresher has made
    api_keys,         \* the providers whose API key is set in the environment
    db,               \* the rows of table fallback_memory, in rowid order
    fa,               \* the last find_answer call and what it did
    co,               \* the last direct cache call and what it returned
    co_prev,          \* the direct cache call before it
    heap,             \* the list objects: identity -> the entries in the list
    kb_ref,           \* the list object the global knowledge_base names
    full,             \* per list object, the entries its load parsed for it
    kb_lock,          \* the thread inside `with kb_lock`, "none" when free
    loader,           \* the thread running load_knowledge_base
    readers,          \* the threads running find_answer
    sheet,            \* what the next pass of kb_auto_refresher's loop will meet
    db_lock,          \* the thread inside `with db_lock`, "none" when free
    unknown_lock      \* the thread inside `with unknown_lock`, "none" when free

(***************************************************************************)
(* load_knowledge_base                                                     *)
(***************************************************************************)
\* one row of the feed as the inner loop reads it
ParseRow(row) ==
    LET q == Strip(row.Question)
        r == StripText(row.Response)
    IN  [Question |-> q, Response |-> IF r # "" THEN r ELSE PLACEHOLDER]

RowKept(row) == Strip(row.Question) # <<>>

RECURSIVE ParseRows(_)
ParseRows(rows) ==
    IF rows = <<>> THEN <<>>
    ELSE (IF RowKept(Head(rows)) THEN <<ParseRow(Head(rows))>> ELSE <<>>)
         \o ParseRows(Tail(rows))

\* the loops of lines 149-170: the outer loop takes the first row of the
\* reader, then temp_kb is reset and the inner loop reads every remaining row
ParseFeed(rows) == IF rows = <<>> THEN <<>> ELSE ParseRows(Tail(rows))

LoadFailures == {"timeout", "network_error", "http_error", "empty_body", "parse_error"}
LoadOutcomes == LoadFailures \cup {"ok"}

MaxTime == 1

\* the global assigned before the rows are known to parse
LoadedKbBeforeParse(outcome, feed) ==
    IF outcome \in {"ok", "parse_error"} THEN ParseFeed(feed) ELSE knowledge_base

\* what a call that ends in `outcome` leaves in the globals: every failure
\* returns before line 172
LoadedKb(outcome, feed) == IF outcome = "ok" THEN ParseFeed(feed) ELSE knowledge_base
LoadedAt(outcome, now) == IF outcome = "ok" THEN now ELSE kb_last_loaded
LoadReturn(outcome) == IF outcome = "ok" THEN "True" ELSE "False"

load_knowledge_base(outcome, feed, now) ==
    /\ knowledge_base' = LoadedKb(outcome, feed)
    /\ kb_last_loaded' = LoadedAt(outcome, now)
    /\ load_ret' = LoadReturn(outcome)

(***************************************************************************)
(* The fallback cache: table fallback_memory                               *)
(***************************************************************************)
MaxRows == 2

\* the orders in which a SELECT without ORDER BY may return n rows
Perms(n) == {f \in [1..n -> 1..n] : \A i, j \in 1..n : f[i] = f[j] => i = j}

\* the INSERT replacing the whole table
ReplaceTable(rows, question, normalized_q, answer) ==
    <<[question |-> question, normalized_question |-> normalized_q, answer |-> answer]>>

\* INSERT OR REPLACE: the table's one UNIQUE column is `question` (line 49),
\* so the row with the same question text is deleted and the new row is added
\* under a fresh rowid
InsertOrReplace(rows, question, normalized_q, answer) ==
    SelectSeq(rows, LAMBDA r : r.question # question)
        \o <<[question |-> question, normalized_question |-> normalized_q, answer |-> answer]>>

\* whether save_to_local_fallback gets as far as the INSERT
SaveAttempts(question, answer) == Norm(question) # <<>> /\ answer # ""

\* save_to_local_fallback: the table after the call; a store error is caught
\* and leaves the table as it was
save_to_local_fallback(rows, question, answer, store_error) ==
    LET normalized_q == Norm(question)
    IN  IF normalized_q = <<>> \/ answer = "" THEN rows
        ELSE IF store_error THEN rows
        ELSE InsertOrReplace(rows, question, normalized_q, answer)

\* the loop of lines 87-94 over the rows still to read
RECURSIVE BestCached(_, _, _, _)
BestCached(rows, normalized_q, best_score, best_answer) ==
    IF rows = <<>> THEN [score |-> best_score, answer |-> best_answer]
    ELSE LET score == Score(normalized_q, Head(rows).normalized_question)
         IN  IF ScoreGt(score, best_score)
             THEN BestCached(Tail(rows), normalized_q, score, Head(rows).answer)
             ELSE BestCached(Tail(rows), normalized_q, best_score, best_answer)

\* the acceptance test of line 96
CacheAccepts(best_score) == ScoreGe(best_score, SIMILARITY_THRESHOLD)

\* get_local_fallback: `order` is the order in which the two SELECTs return
\* the rows; a store error in either is caught and gives None
get_local_fallback(rows, question, store_error, order) ==
    LET normalized_q == Norm(question)
        fetched == [i \in 1..Len(rows) |-> rows[order[i]]]
        exact == SelectSeq(fetched, LAMBDA r : r.normalized_question = normalized_q)
        best == BestCached(fetched, normalized_q, ZeroScore, None)
    IN  IF normalized_q = <<>> THEN None
        ELSE IF store_error THEN None
        ELSE IF exact # <<>> THEN exact[1].answer
        ELSE IF CacheAccepts(best.score) THEN best.answer
        ELSE None

(***************************************************************************)
(* The provider adapters                                                   *)
(***************************************************************************)
Contents == {"x", "y", Blank}

\* what one HTTP request to a provider may end in
Responses ==
    [kind : {"timeout", "http_error", "bad_json", "no_choices"}, content : {""}]
        \cup [kind : {"ok"}, content : Contents]

\* a request's response, and whether the store fails when the answer is saved
Exchanges ==
    [resp : Responses, serr : {FALSE}]
        \cup [resp : {r \in Responses : r.kind = "ok"}, serr : {TRUE}]

Quiet(rows) == [ret |-> None, exc |-> FALSE, req |-> FALSE, rows |-> rows, save_err |-> FALSE]

\* get_groq_response.  The name `model` is bound nowhere, so each print that
\* formats it (lines 340, 344, 353) raises NameError: the one of line 340
\* before the answer is saved, and the one of the except clause (line 353)
\* leaves the function.  Only a missing key and a 200 response without
\* choices reach a `return None`.
get_groq_response(rows, question, has_key, resp) ==
    IF ~has_key THEN Quiet(rows)
    ELSE IF resp.kind = "no_choices"
         THEN [Quiet(rows) EXCEPT !.req = TRUE]
         ELSE [Quiet(rows) EXCEPT !.req = TRUE, !.exc = TRUE]

\* get_openai_response returning the answer without saving it
OpenAIWithoutSave(rows, question, has_key, resp, store_error) ==
    IF ~has_key THEN Quiet(rows)
    ELSE IF resp.kind = "ok"
         THEN [Quiet(rows) EXCEPT !.ret = StripText(resp.content), !.req = TRUE]
         ELSE [Quiet(rows) EXCEPT !.req = TRUE]

\* get_openai_response
get_openai_response(rows, question, has_key, resp, store_error) ==
    IF ~has_key THEN Quiet(rows)
    ELSE IF resp.kind = "ok"
         THEN LET ans == StripText(resp.content)
              IN  [ret |-> ans, exc |-> FALSE, req |-> TRUE,
                   rows |-> save_to_local_fallback(rows, question, ans, store_error),
                   save_err |-> SaveAttempts(question, ans) /\ store_error]
         ELSE [Quiet(rows) EXCEPT !.req = TRUE]

\* get_anthropic_response
get_anthropic_response(rows, question, has_key, resp, store_error) ==
    IF ~has_key THEN Quiet(rows)
    ELSE IF resp.kind = "ok"
         THEN LET ans == StripText(resp.content)
              IN  [ret |-> ans, exc |-> FALSE, req |-> TRUE,
                   rows |-> save_to_local_fallback(rows, question, ans, store_error),
                   save_err |-> SaveAttempts(question, ans) /\ store_error]
         ELSE [Quiet(rows) EXCEPT !.req = TRUE]

(***************************************************************************)
(* find_answer                                                             *)
(***************************************************************************)
Providers == {"groq", "openai", "anthropic"}

\* the comparison of line 448
RawEqual(entry, question) == Lower(Strip(entry.Question)) = Lower(Strip(question))

\* the loop of lines 447-449: the entries that remain to be read
RECURSIVE RawScan(_, _)
RawScan(entries, question) ==
    IF entries = <<>> THEN None
    ELSE IF RawEqual(Head(entries), question) THEN Head(entries).Response
    ELSE RawScan(Tail(entries), question)

\* line 469 never true
ContainedNever(normalized_q, normalized_kb_q) == FALSE

\* the tests of lines 466 and 469
NormEqual(normalized_q, normalized_kb_q) == normalized_q = normalized_kb_q
Contained(normalized_q, normalized_kb_q) ==
    IsSubstring(normalized_kb_q, normalized_q) \/ IsSubstring(normalized_q, normalized_kb_q)

\* the loop of lines 460-475; best_match is an index into kb, 0 for None
RECURSIVE NormScan(_, _, _, _, _)
NormScan(kb, i, normalized_q, best_score, best_match) ==
    IF i > Len(kb)
    THEN [returned |-> FALSE, answer |-> None, how |-> "none",
          best_score |-> best_score, best_match |-> best_match]
    ELSE LET normalized_kb_q == Norm(kb[i].Question)
             score == Score(normalized_q, normalized_kb_q)
         IN  IF normalized_kb_q = <<>>
             THEN NormScan(kb, i + 1, normalized_q, best_score, best_match)
             ELSE IF NormEqual(normalized_q, normalized_kb_q)
             THEN [returned |-> TRUE, answer |-> kb[i].Response, how |-> "equal",
                   best_score |-> best_score, best_match |-> best_match]
             ELSE IF Contained(normalized_q, normalized_kb_q)
             THEN [returned |-> TRUE, answer |-> kb[i].Response, how |-> "contained",
                   best_score |-> best_score, best_match |-> best_match]
             ELSE IF ScoreGt(score, best_score)
             THEN NormScan(kb, i + 1, normalized_q, score, i)
             ELSE NormScan(kb, i + 1, normalized_q, best_score, best_match)

\* the test of line 477 with > for >=
KbAcceptsAbove(best_score, best_match) ==
    ScoreGt(best_score, SIMILARITY_THRESHOLD) /\ best_match # 0

\* the acceptance test of line 477
KbAccepts(best_score, best_match) ==
    ScoreGe(best_score, SIMILARITY_THRESHOLD) /\ best_match # 0

\* lines 441-478: what the knowledge base gives.  stop: find_answer returns
\* here; how: the test that matched
KbPhase(kb, question) ==
    LET raw == IF kb = <<>> THEN None ELSE RawScan(kb, question)
        normalized_q == Norm(question)
        scan == NormScan(kb, 1, normalized_q, ZeroScore, 0)
    IN  IF raw # None
        THEN [stop |-> TRUE, answer |-> raw, source |-> "sheet", how |-> "raw"]
        ELSE IF normalized_q = <<>>
        THEN [stop |-> TRUE, answer |-> None, source |-> None, how |-> "empty"]
        ELSE IF scan.returned
        THEN [stop |-> TRUE, answer |-> scan.answer, source |-> "sheet", how |-> scan.how]
        ELSE IF KbAccepts(scan.best_score, scan.best_match)
        THEN [stop |-> TRUE, answer |-> kb[scan.best_match].Response, source |-> "sheet",
              how |-> "fuzzy"]
        ELSE [stop |-> FALSE, answer |-> None, source |-> None, how |-> "none"]

\* what a find_answer call did, and the table it leaves
Call(question, answer, source, how, local, local_err, calls, reqs, save_err, exc, rows) ==
    [call |-> [called |-> TRUE, q |-> question, answer |-> answer, source |-> source,
               how |-> how, local |-> local, local_err |-> local_err, calls |-> calls,
               reqs |-> reqs, save_err |-> save_err, exc |-> exc, raised |-> exc],
     rows |-> rows]

NoCall ==
    [called |-> FALSE, q |-> <<>>, answer |-> None, source |-> None, how |-> "none",
     local |-> FALSE, local_err |-> FALSE, calls |-> <<>>, reqs |-> <<>>,
     save_err |-> FALSE, exc |-> FALSE, raised |-> FALSE]

Requests(reqs, name, r) == IF r.req THEN Append(reqs, name) ELSE reqs

\* lines 495-499, after get_openai_response gave no answer
FromAnthropic(rows, keys, question, lerr, calls, reqs) ==
    {LET c == Append(calls, "anthropic")
         q == Requests(reqs, "anthropic", r)
     IN  IF Truthy(r.ret)
         THEN Call(question, r.ret, "anthropic", "none", TRUE, lerr, c, q, r.save_err, FALSE, r.rows)
         ELSE Call(question, None, None, "none", TRUE, lerr, c, q, r.save_err, FALSE, r.rows)
     : r \in {get_anthropic_response(rows, question, "anthropic" \in keys, e.resp, e.serr) :
                 e \in Exchanges}}

\* lines 491-493, after get_groq_response gave no answer
FromOpenAI(rows, keys, question, lerr, calls, reqs) ==
    UNION {LET c == Append(calls, "openai")
               q == Requests(reqs, "openai", r)
           IN  IF Truthy(r.ret)
               THEN {Call(question, r.ret, "openai", "none", TRUE, lerr, c, q, r.save_err, FALSE, r.rows)}
               ELSE FromAnthropic(r.rows, keys, question, lerr, c, q)
           : r \in {get_openai_response(rows, question, "openai" \in keys, e.resp, e.serr) :
                       e \in Exchanges}}

\* lines 486-489; an exception that leaves get_groq_response is caught by
\* line 501 and find_answer returns (None, None)
FromGroq(rows, keys, question, lerr) ==
    UNION {LET c == <<"groq">>
               q == Requests(<<>>, "groq", r)
           IN  IF r.exc
               THEN {Call(question, None, None, "none", TRUE, lerr, c, q, FALSE, TRUE, r.rows)}
               ELSE IF Truthy(r.ret)
               THEN {Call(question, r.ret, "groq", "none", TRUE, lerr, c, q, FALSE, FALSE, r.rows)}
               ELSE FromOpenAI(r.rows, keys, question, lerr, c, q)
           : r \in {get_groq_response(rows, question, "groq" \in keys, resp) : resp \in Responses}}

\* lines 480-484
FromLocal(rows, keys, question) ==
    UNION {LET local_ans == get_local_fallback(rows, question, lerr, order)
           IN  IF Truthy(local_ans)
               THEN {Call(question, local_ans, "local", "none", TRUE, lerr, <<>>, <<>>, FALSE, FALSE, rows)}
               ELSE FromGroq(rows, keys, question, lerr)
           : lerr \in BOOLEAN, order \in Perms(Len(rows))}

\* find_answer with the cache asked before the knowledge base
FindAnswerBodyCacheFirst(kb, rows, keys, question) ==
    LET k == KbPhase(kb, question)
        hits == IF Norm(question) = <<>> THEN {}
                ELSE {o \in FromLocal(rows, keys, question) : o.call.source = "local"}
    IN  IF hits # {} THEN hits
        ELSE IF k.stop
        THEN {Call(question, k.answer, k.source, k.how, FALSE, FALSE, <<>>, <<>>, FALSE, FALSE, rows)}
        ELSE FromLocal(rows, keys, question)

\* lines 440-499: the body of the try
FindAnswerBody(kb, rows, keys, question) ==
    LET k == KbPhase(kb, question)
    IN  IF k.stop
        THEN {Call(question, k.answer, k.source, k.how, FALSE, FALSE, <<>>, <<>>, FALSE, FALSE, rows)}
        ELSE FromLocal(rows, keys, question)

\* find_answer without its except clause
ExceptClauseMissing(o) == o

\* lines 501-503: an exception of the body is caught and (None, None) returned
ExceptClause(o) ==
    IF o.call.exc
    THEN [o EXCEPT !.call.answer = None, !.call.source = None, !.call.raised = FALSE]
    ELSE o

\* find_answer: every way the call may end, given what the store and the
\* providers may do
find_answer(kb, rows, keys, question) ==
    {ExceptClause(o) : o \in FindAnswerBody(kb, rows, keys, question)}

(***************************************************************************)
(* The resolver and the loader, one call at a time                         *)
(***************************************************************************)
vars == <<knowledge_base, kb_last_loaded, load_ret, failure_count, wait, iter,
          api_keys, db, fa, co, co_prev, heap, kb_ref, full, kb_lock, loader, readers,
          sheet, db_lock, unknown_lock>>

\* the state of the threads and of the world around the refresher, left alone
\* when calls are made one at a time
threadVars == <<heap, kb_ref, full, kb_lock, loader, readers, sheet, db_lock, unknown_lock>>

MaxSwaps == 2
ListIds == 0..MaxSwaps
ReaderIds == {"r1", "r2"}

IdleLoader == [pc |-> "idle", temp |-> 0, pending |-> <<>>]
IdleReader ==
    [pc |-> "idle", q |-> <<>>, it |-> 0, idx |-> 0, seen |-> <<>>,
     rows |-> <<>>, taken |-> <<>>, best_score |-> ZeroScore, best_answer |-> None,
     prov |-> "none", ans |-> None]

\* the environments the process may run in: which API keys are set
KeySets == SUBSET Providers

NoOp == [op |-> "none", q |-> <<>>, a |-> None, ret |-> None, err |-> FALSE]

\* main before line 697: nothing loaded, the table empty
Init ==
    /\ knowledge_base = <<>>
    /\ kb_last_loaded = 0
    /\ load_ret = "none"
    /\ failure_count = 0
    /\ wait = 0
    /\ iter = 0
    /\ api_keys \in KeySets
    /\ db = <<>>
    /\ fa = NoCall
    /\ co = NoOp
    /\ co_prev = NoOp
    /\ heap = [id \in ListIds |-> <<>>]
    /\ kb_ref = 0
    /\ full = [id \in ListIds |-> <<>>]
    /\ kb_lock = "none"
    /\ loader = IdleLoader
    /\ readers = [r \in ReaderIds |-> IdleReader]
    /\ sheet = "up"
    /\ db_lock = "none"
    /\ unknown_lock = "none"

\* a call of load_knowledge_base that succeeds (main, line 697, or the
\* refresher, line 197), between two handler calls; a call that fails changes
\* nothing a handler reads
LoadOk ==
    /\ ~fa.called
    /\ kb_last_loaded < MaxTime
    /\ \E feed \in Feeds, now \in (kb_last_loaded + 1)..MaxTime :
          load_knowledge_base("ok", feed, now)
    /\ UNCHANGED <<failure_count, wait, iter, api_keys, db, fa, co, co_prev>>
    /\ UNCHANGED threadVars

\* a call of find_answer (handle_message, line 589)
FindAnswer ==
    /\ ~fa.called
    /\ \E question \in Questions :
          \E o \in find_answer(knowledge_base, db, api_keys, question) :
              /\ Len(o.rows) <= MaxRows
              /\ fa' = o.call
              /\ db' = o.rows
    /\ UNCHANGED <<knowledge_base, kb_last_loaded, load_ret, failure_count, wait, iter,
                   api_keys, co, co_prev>>
    /\ UNCHANGED threadVars

\* handle_message replies (lines 592-608) and the handler ends
Reply ==
    /\ fa.called
    /\ fa' = NoCall
    /\ UNCHANGED <<knowledge_base, kb_last_loaded, load_ret, failure_count, wait, iter,
                   api_keys, db, co, co_prev>>
    /\ UNCHANGED threadVars

Next == LoadOk \/ FindAnswer \/ Reply

Spec == Init /\ [][Next]_vars

(***************************************************************************)
(* kb_auto_refresher                                                       *)
(***************************************************************************)
KB_REFRESH_INTERVAL == 300
max_backoff == 1000
MaxIter == 6

Min(x, y) == IF x < y THEN x ELSE y

\* the backoff computed from the count before its increment
BackoffFromOldCount(count) == Min(60 * (2 ^ (count - 1)), max_backoff)

\* line 202
Backoff(count) == Min(60 * (2 ^ count), max_backoff)

\* lines 197-204: what the loop does with load_knowledge_base's return value
AfterLoad(ret) ==
    IF ret = "True"
    THEN /\ failure_count' = 0
         /\ wait' = KB_REFRESH_INTERVAL
    ELSE /\ failure_count' = failure_count + 1
         /\ wait' = Backoff(failure_count + 1)

\* one iteration of the loop whose load succeeds
RefreshOk ==
    /\ iter < MaxIter
    /\ kb_last_loaded < MaxTime
    /\ \E feed \in Feeds, now \in (kb_last_loaded + 1)..MaxTime :
          load_knowledge_base("ok", feed, now)
    /\ AfterLoad(load_ret')
    /\ iter' = iter + 1
    /\ UNCHANGED <<api_keys, db, fa, co, co_prev>>
    /\ UNCHANGED threadVars

\* one iteration of the loop whose load fails
RefreshFails ==
    /\ iter < MaxIter
    /\ \E outcome \in LoadFailures, feed \in Feeds :
          load_knowledge_base(outcome, feed, kb_last_loaded)
    /\ AfterLoad(load_ret')
    /\ iter' = iter + 1
    /\ UNCHANGED <<api_keys, db, fa, co, co_prev>>
    /\ UNCHANGED threadVars

\* lines 205-207: an exception leaves the call of line 197 and is caught
RefreshError ==
    /\ iter < MaxIter
    /\ load_ret' = "raised"
    /\ wait' = 60
    /\ iter' = iter + 1
    /\ UNCHANGED <<knowledge_base, kb_last_loaded, failure_count,
                   api_keys, db, fa, co, co_prev>>
    /\ UNCHANGED threadVars

\* the refresher thread starts (line 701); main's own load has failed
InitRefresher ==
    /\ Init
    /\ api_keys = Providers

NextRefresher == RefreshOk \/ RefreshFails \/ RefreshError

SpecRefresher == InitRefresher /\ [][NextRefresher]_vars

(***************************************************************************)
(* The cache functions called one after the other                          *)
(***************************************************************************)
MaxCacheRows == 2
CacheQuestions == {Q_abc, Q_ABCq, Q_abac, Q_punct}
CacheAnswers == {"x", "y", ""}

\* a call of save_to_local_fallback
Save ==
    /\ \E question \in CacheQuestions, answer \in CacheAnswers, store_error \in BOOLEAN :
          /\ db' = save_to_local_fallback(db, question, answer, store_error)
          /\ Len(db') <= MaxCacheRows
          /\ co' = [op |-> "save", q |-> question, a |-> answer, ret |-> None,
                    err |-> store_error /\ SaveAttempts(question, answer)]
    /\ co_prev' = co
    /\ UNCHANGED <<knowledge_base, kb_last_loaded, load_ret, failure_count, wait, iter,
                   api_keys, fa>>
    /\ UNCHANGED threadVars

\* a call of get_local_fallback
Get ==
    /\ \E question \in CacheQuestions, store_error \in BOOLEAN, order \in Perms(Len(db)) :
          co' = [op |-> "get", q |-> question, a |-> None,
                 ret |-> get_local_fallback(db, question, store_error, order),
                 err |-> store_error /\ Norm(question) # <<>>]
    /\ co_prev' = co
    /\ UNCHANGED <<knowledge_base, kb_last_loaded, load_ret, failure_count, wait, iter,
                   api_keys, db, fa>>
    /\ UNCHANGED threadVars

NextCache == Save \/ Get

InitCache ==
    /\ Init
    /\ api_keys = Providers

SpecCache == InitCache /\ [][NextCache]_vars

(***************************************************************************)
(* Properties of find_answer                                               *)
(***************************************************************************)
\* a step that is one call of find_answer
IsFindAnswerStep == ~fa.called /\ fa'.called

\* entry i of kb matches the question by one of find_answer's tests
EntryMatches(kb, i, question) ==
    \/ RawEqual(kb[i], question)
    \/ /\ Norm(question) # <<>>
       /\ Norm(kb[i].Question) # <<>>
       /\ \/ Norm(question) = Norm(kb[i].Question)
          \/ IsSubstring(Norm(kb[i].Question), Norm(question))
          \/ IsSubstring(Norm(question), Norm(kb[i].Question))
          \/ ScoreGe(Score(Norm(question), Norm(kb[i].Question)), SIMILARITY_THRESHOLD)

KbWouldMatch(kb, question) == \E i \in 1..Len(kb) : EntryMatches(kb, i, question)

CacheWouldMatch(rows, question) ==
    /\ Norm(question) # <<>>
    /\ \E i \in 1..Len(rows) :
          \/ rows[i].normalized_question = Norm(question)
          \/ ScoreGe(Score(Norm(question), rows[i].normalized_question), SIMILARITY_THRESHOLD)

CascadeOrder == <<"groq", "openai", "anthropic">>
IsPrefix(s, t) == Len(s) <= Len(t) /\ SubSeq(t, 1, Len(s)) = s
Count(s, x) == Cardinality({i \in 1..Len(s) : s[i] = x})

\* C1: when both the knowledge base and the fallback cache would match the
\* question, find_answer returns the answer of a matching knowledge-base
\* entry with source "sheet"; get_local_fallback is not consulted, no provider
\* is called and the cache is left as it was.
C1_KbWinsOverCache ==
    [][(IsFindAnswerStep /\ KbWouldMatch(knowledge_base, fa'.q) /\ CacheWouldMatch(db, fa'.q))
         => /\ fa'.source = "sheet"
            /\ \E i \in 1..Len(knowledge_base) :
                  EntryMatches(knowledge_base, i, fa'.q) /\ fa'.answer = knowledge_base[i].Response
            /\ ~fa'.local
            /\ fa'.calls = <<>>
            /\ db' = db]_vars

C1_Witness ==
    /\ fa.called
    /\ KbWouldMatch(knowledge_base, fa.q)
    /\ CacheWouldMatch(db, fa.q)
    /\ fa.source = "sheet"

\* C2: when the knowledge base and the cache both miss, the providers are
\* called in the order Groq, OpenAI, Anthropic, each at most once; a returned
\* answer carries the identity of the last provider called, and (None, None)
\* is returned only after all three providers were called.
C2_CascadeInOrder ==
    [][(IsFindAnswerStep /\ fa'.local /\ fa'.source # "local")
         => /\ IsPrefix(fa'.calls, CascadeOrder)
            /\ Truthy(fa'.answer)
                 => fa'.calls # <<>> /\ fa'.source = fa'.calls[Len(fa'.calls)]
            /\ ~Truthy(fa'.answer)
                 => fa'.calls = CascadeOrder /\ fa'.answer = None /\ fa'.source = None]_vars

\* C8 as stated: a provider answer returned by find_answer is in the cache
\* under the question's normalized form, and a call that got no provider
\* answer leaves the cache as it was.
C8_ProviderAnswerCached ==
    [][IsFindAnswerStep
         => /\ fa'.source \in Providers
                 => \E i \in 1..Len(db') :
                       /\ db'[i].normalized_question = Norm(fa'.q)
                       /\ db'[i].answer = fa'.answer
            /\ fa'.source \notin Providers => db' = db]_vars

\* C8 amended: the same, provided save_to_local_fallback met no store error;
\* with a store error the answer is returned and the cache is left as it was.
C8_ProviderAnswerCachedUnlessStoreError ==
    [][IsFindAnswerStep
         => /\ (fa'.source \in Providers /\ ~fa'.save_err)
                 => \E i \in 1..Len(db') :
                       /\ db'[i].normalized_question = Norm(fa'.q)
                       /\ db'[i].answer = fa'.answer
            /\ (fa'.source \notin Providers \/ fa'.save_err) => db' = db]_vars

C8_Witness ==
    /\ fa.called
    /\ fa.source \in Providers
    /\ ~fa.save_err
    /\ \E i \in 1..Len(db) :
          db[i].normalized_question = Norm(fa.q) /\ db[i].answer = fa.answer

\* C9: an adapter that fails returns absent without raising and without a
\* second request, an adapter without a key sends no request, and find_answer
\* goes on to the next adapter: whenever Groq yields no answer OpenAI is
\* tried, and whenever OpenAI yields none Anthropic is tried.
C9_FailuresFallThrough ==
    [][(IsFindAnswerStep /\ fa'.local /\ fa'.source # "local")
         => /\ ~fa'.exc
            /\ \A name \in Providers :
                  /\ Count(fa'.reqs, name) <= 1
                  /\ name \notin api_keys => Count(fa'.reqs, name) = 0
            /\ fa'.source # "groq" => Count(fa'.calls, "openai") = 1
            /\ fa'.source \notin {"groq", "openai"} => Count(fa'.calls, "anthropic") = 1]_vars

\* C10: find_answer never raises; a store error in get_local_fallback is a
\* miss (the cascade is entered, Groq first); a store error in
\* save_to_local_fallback does not keep the provider's answer and tier from
\* being returned.
C10_StoreErrorsAreMisses ==
    [][IsFindAnswerStep
         => /\ ~fa'.raised
            /\ fa'.local_err
                 => fa'.source # "local" /\ fa'.calls # <<>> /\ fa'.calls[1] = "groq"
            /\ fa'.save_err
                 => /\ Truthy(fa'.answer)
                    /\ fa'.source \in {"openai", "anthropic"}
                    /\ fa'.source = fa'.calls[Len(fa'.calls)]]_vars

C10_Witness ==
    /\ fa.called
    /\ fa.local_err
    /\ fa.save_err
    /\ fa.source = "anthropic"

(***************************************************************************)
(* Properties of load_knowledge_base and kb_auto_refresher                 *)
(***************************************************************************)
\* a step that is one iteration of the refresher's loop
IsRefreshStep == iter' = iter + 1

\* C4: a load that fails returns False and leaves knowledge_base and
\* kb_last_loaded as they were; they change only in a call that returns True.
C4_FailedLoadKeepsSnapshot ==
    [][IsRefreshStep
         => /\ load_ret' = "False"
                 => knowledge_base' = knowledge_base /\ kb_last_loaded' = kb_last_loaded
            /\ (knowledge_base' # knowledge_base \/ kb_last_loaded' # kb_last_loaded)
                 => load_ret' = "True"]_vars

C4_Witness ==
    /\ load_ret = "False"
    /\ failure_count > 0
    /\ knowledge_base # <<>>
    /\ kb_last_loaded > 0

\* C5: the n-th consecutive failed load is followed by a wait of
\* min(60 * 2^n, 1000) seconds (120, 240, 480 for the first three, never more
\* than 1000); a successful load resets the count to zero and is followed by a
\* wait of 300 seconds.
C5_BackoffSchedule ==
    [][IsRefreshStep
         => /\ wait' <= 1000
            /\ load_ret' = "False"
                 => /\ failure_count' = failure_count + 1
                    /\ wait' = Min(60 * (2 ^ failure_count'), 1000)
                    /\ failure_count' \in 1..3 => wait' = <<120, 240, 480>>[failure_count']
            /\ load_ret' = "True"
                 => failure_count' = 0 /\ wait' = 300]_vars

C5_Witness ==
    /\ load_ret = "False"
    /\ failure_count = 5
    /\ wait = 1000

(***************************************************************************)
(* Properties of the cache functions                                       *)
(***************************************************************************)
\* a call of save_to_local_fallback that wrote its row
Wrote(c) == c.op = "save" /\ SaveAttempts(c.q, c.a) /\ ~c.err

\* C6: after save_to_local_fallback(question, answer) has written, the next
\* cache call get_local_fallback(question), without a store error, returns
\* that answer.
C6_SaveThenGet ==
    [][(Wrote(co) /\ co'.op = "get" /\ ~co'.err /\ co'.q = co.q)
         => co'.ret = co.a]_vars

\* C7: after save_to_local_fallback(q1, a1) and then
\* save_to_local_fallback(q2, a2), with q1 and q2 normalizing to the same
\* string, get_local_fallback of q1 and of q2 return a2.
C7_LastWriteWins ==
    [][(/\ Wrote(co_prev)
        /\ Wrote(co)
        /\ Norm(co_prev.q) = Norm(co.q)
        /\ co'.op = "get"
        /\ ~co'.err
        /\ co'.q \in {co_prev.q, co.q})
         => co'.ret = co.a]_vars

(***************************************************************************)
(* load_knowledge_base and find_answer as threads, statement by statement  *)
(***************************************************************************)
callVars == <<failure_count, wait, iter, api_keys, db, fa, co, co_prev, sheet,
              db_lock, unknown_lock>>

SwapFeeds ==
    { <<>>,
      <<Row_noq, Row_abc>>,
      <<Row_ab, Row_abc, Row_ABCq>> }
ReaderQuestions == {Q_abc, Q_cb, Q_punct}

\* the global after `temp_kb = []` made list object id: the new list is a
\* local of the loader, the global still names the list it named
AliasedToNewList(ref, id) == id
GlobalAfterNewList(ref, id) == ref

\* line 137: the request for the sheet is sent
LoaderRequest ==
    /\ loader.pc = "idle"
    /\ kb_last_loaded < MaxSwaps
    /\ loader' = [loader EXCEPT !.pc = "fetch"]
    /\ UNCHANGED <<knowledge_base, kb_last_loaded, load_ret, heap, kb_ref, full, kb_lock, readers>>
    /\ UNCHANGED callVars

\* lines 137-142 and 180-188: the request fails and the call returns False
LoaderFails ==
    /\ loader.pc = "fetch"
    /\ loader' = IdleLoader
    /\ load_ret' = "False"
    /\ UNCHANGED <<knowledge_base, kb_last_loaded, heap, kb_ref, full, kb_lock, readers>>
    /\ UNCHANGED callVars

\* lines 144-158: the response arrived; temp_kb is a new, empty list
LoaderNewList ==
    /\ loader.pc = "fetch"
    /\ \E feed \in SwapFeeds :
          LET id == kb_last_loaded + 1
          IN  /\ loader' = [pc |-> "parse", temp |-> id, pending |-> ParseFeed(feed)]
              /\ heap' = [heap EXCEPT ![id] = <<>>]
              /\ full' = [full EXCEPT ![id] = ParseFeed(feed)]
              /\ kb_ref' = GlobalAfterNewList(kb_ref, id)
              /\ knowledge_base' = heap'[kb_ref']
    /\ UNCHANGED <<kb_last_loaded, load_ret, kb_lock, readers>>
    /\ UNCHANGED callVars

\* lines 159-170: one row is appended to temp_kb
LoaderAppend ==
    /\ loader.pc = "parse"
    /\ loader.pending # <<>>
    /\ heap' = [heap EXCEPT ![loader.temp] = Append(@, Head(loader.pending))]
    /\ loader' = [loader EXCEPT !.pending = Tail(@)]
    /\ knowledge_base' = heap'[kb_ref]
    /\ UNCHANGED <<kb_last_loaded, load_ret, kb_ref, full, kb_lock, readers>>
    /\ UNCHANGED callVars

\* line 172: the loops are over, the loader enters `with kb_lock`
LoaderLock ==
    /\ loader.pc = "parse"
    /\ loader.pending = <<>>
    /\ kb_lock = "none"
    /\ kb_lock' = "loader"
    /\ loader' = [loader EXCEPT !.pc = "swap"]
    /\ UNCHANGED <<knowledge_base, kb_last_loaded, load_ret, heap, kb_ref, full, readers>>
    /\ UNCHANGED callVars

\* the swap with kb_lock still held when the statement after it runs
LoaderSwapKeepsLock ==
    /\ loader.pc = "swap"
    /\ kb_ref' = loader.temp
    /\ knowledge_base' = heap[loader.temp]
    /\ kb_lock' = "loader"
    /\ loader' = [loader EXCEPT !.pc = "stamp"]
    /\ UNCHANGED <<kb_last_loaded, load_ret, heap, full, readers>>
    /\ UNCHANGED callVars

\* line 173: the global is bound to temp_kb and the lock is released
LoaderSwap ==
    /\ loader.pc = "swap"
    /\ kb_ref' = loader.temp
    /\ knowledge_base' = heap[loader.temp]
    /\ kb_lock' = "none"
    /\ loader' = [loader EXCEPT !.pc = "stamp"]
    /\ UNCHANGED <<kb_last_loaded, load_ret, heap, full, readers>>
    /\ UNCHANGED callVars

\* lines 175-178: the time is recorded and the call returns True
LoaderReturns ==
    /\ loader.pc = "stamp"
    /\ kb_last_loaded' = kb_last_loaded + 1
    /\ load_ret' = "True"
    /\ loader' = IdleLoader
    /\ UNCHANGED <<knowledge_base, heap, kb_ref, full, kb_lock, readers>>
    /\ UNCHANGED callVars

ReaderUnchanged ==
    /\ UNCHANGED <<knowledge_base, kb_last_loaded, load_ret, heap, kb_ref, full, loader>>
    /\ UNCHANGED callVars

\* a handler thread calls find_answer
ReaderCalls(r) ==
    /\ readers[r].pc = "idle"
    /\ \E question \in ReaderQuestions :
          readers' = [readers EXCEPT ![r] = [IdleReader EXCEPT !.pc = "check", !.q = question]]
    /\ UNCHANGED kb_lock
    /\ ReaderUnchanged

\* line 442: `if not knowledge_base`, read without the lock
ReaderChecksEmpty(r) ==
    /\ readers[r].pc = "check"
    /\ readers' = [readers EXCEPT ![r].pc = IF heap[kb_ref] = <<>> THEN "pass2" ELSE "pass1"]
    /\ UNCHANGED kb_lock
    /\ ReaderUnchanged

\* lines 452-454: the normalized question is empty, find_answer returns
ReaderReturnsEmpty(r) ==
    /\ readers[r].pc = "pass2"
    /\ Norm(readers[r].q) = <<>>
    /\ readers' = [readers EXCEPT ![r] = IdleReader]
    /\ UNCHANGED kb_lock
    /\ ReaderUnchanged

\* lines 446-447 and 459-460: `with kb_lock`, then `for entry in
\* knowledge_base` takes an iterator on the list the global names
ReaderStartsScan(r) ==
    /\ readers[r].pc \in {"pass1", "pass2"}
    /\ readers[r].pc = "pass2" => Norm(readers[r].q) # <<>>
    /\ kb_lock = "none"
    /\ kb_lock' = r
    /\ readers' = [readers EXCEPT ![r].pc = IF @ = "pass1" THEN "scan1" ELSE "scan2",
                                  ![r].it = kb_ref, ![r].idx = 0, ![r].seen = <<>>]
    /\ ReaderUnchanged

\* the tests that end a scan with a return (lines 448, 466, 469)
ScanReturns(pc, question, entry) ==
    IF pc = "scan1" THEN RawEqual(entry, question)
    ELSE /\ Norm(entry.Question) # <<>>
         /\ \/ NormEqual(Norm(question), Norm(entry.Question))
            \/ Contained(Norm(question), Norm(entry.Question))

\* one turn of the loop: the iterator gives the next entry of its list
ReaderNextEntry(r) ==
    LET me == readers[r]
        entry == heap[me.it][me.idx + 1]
    IN  /\ me.pc \in {"scan1", "scan2"}
        /\ me.idx < Len(heap[me.it])
        /\ IF ScanReturns(me.pc, me.q, entry)
           THEN /\ readers' = [readers EXCEPT ![r] = IdleReader]
                /\ kb_lock' = "none"
           ELSE /\ readers' = [readers EXCEPT ![r].idx = @ + 1, ![r].seen = Append(@, entry)]
                /\ UNCHANGED kb_lock
        /\ ReaderUnchanged

\* the iterator is exhausted: the loop ends and the lock is released; after
\* the second scan the call goes on to lines 477-499 and returns
ReaderEndsScan(r) ==
    /\ readers[r].pc \in {"scan1", "scan2"}
    /\ readers[r].idx >= Len(heap[readers[r].it])
    /\ kb_lock' = "none"
    /\ readers' = [readers EXCEPT ![r] = IF @.pc = "scan1" THEN [@ EXCEPT !.pc = "pass2"]
                                         ELSE IdleReader]
    /\ ReaderUnchanged

NextSwap ==
    \/ LoaderRequest
    \/ LoaderFails
    \/ LoaderNewList
    \/ LoaderAppend
    \/ LoaderLock
    \/ LoaderSwap
    \/ LoaderReturns
    \/ \E r \in ReaderIds :
          \/ ReaderCalls(r)
          \/ ReaderChecksEmpty(r)
          \/ ReaderReturnsEmpty(r)
          \/ ReaderStartsScan(r)
          \/ ReaderNextEntry(r)
          \/ ReaderEndsScan(r)

InitSwap ==
    /\ Init
    /\ api_keys = Providers

SpecSwap == InitSwap /\ [][NextSwap]_vars

\* C3: whatever load_knowledge_base is doing, the list a find_answer scan
\* iterates holds exactly the entries one load parsed for it (one complete
\* snapshot), and the entries read so far are the first entries of that
\* snapshot.
C3_ScanSeesOneSnapshot ==
    \A r \in ReaderIds :
        readers[r].pc \in {"scan1", "scan2"}
            => /\ heap[readers[r].it] = full[readers[r].it]
               /\ readers[r].seen = SubSeq(full[readers[r].it], 1, readers[r].idx)

C3_Witness ==
    \E r \in ReaderIds :
        /\ readers[r].pc \in {"scan1", "scan2"}
        /\ readers[r].idx > 0
        /\ readers[r].it # 0
        /\ loader.pc = "parse"
        /\ heap[loader.temp] # <<>>
        /\ loader.pending # <<>>

(***************************************************************************)
(* Properties of questions that normalize to the empty string              *)
(***************************************************************************)
\* C11: a question whose normalized form is empty gets (None, None) from
\* find_answer: no knowledge-base entry is matched, the cache is not asked,
\* no provider is called and nothing is stored.
C11_EmptyNeverMatches ==
    [][(IsFindAnswerStep /\ Norm(fa'.q) = <<>>)
         => /\ fa'.answer = None
            /\ fa'.source = None
            /\ ~fa'.local
            /\ fa'.calls = <<>>
            /\ db' = db]_vars

\* C11, the cache functions: for such a question get_local_fallback returns
\* None and save_to_local_fallback leaves the table as it was.
C11_CacheRejectsEmpty ==
    [][/\ (co'.op = "get" /\ co' # co /\ Norm(co'.q) = <<>>) => co'.ret = None
       /\ (co'.op = "save" /\ co' # co /\ Norm(co'.q) = <<>>) => db' = db]_vars

(***************************************************************************)
(* Properties of the tier find_answer returns                              *)
(***************************************************************************)
\* the tier find_answer gives a hit by raw equality, normalized equality or
\* containment
ExactTier == "sheet"

\* C12: the tier names the source of the answer: ExactTier for a
\* knowledge-base hit by raw equality, normalized equality or containment, a
\* tier of its own for a knowledge-base hit accepted by its score only,
\* "local" for a cache hit, the provider's name for a provider's answer; the
\* tier is None exactly when the answer is None.
C12_TierIdentifiesSource ==
    [][IsFindAnswerStep
         => /\ fa'.how \in {"raw", "equal", "contained"} => fa'.source = ExactTier
            /\ fa'.how = "fuzzy"
                 => fa'.source \notin ({ExactTier, "local", None} \cup Providers)
            /\ (fa'.local /\ fa'.calls = <<>> /\ Truthy(fa'.answer)) => fa'.source = "local"
            /\ (fa'.calls # <<>> /\ Truthy(fa'.answer))
                 => fa'.source = fa'.calls[Len(fa'.calls)]
            /\ (fa'.source = None) <=> (fa'.answer = None)]_vars

(***************************************************************************)
(* Properties of the table fallback_memory                                 *)
(***************************************************************************)
\* C13: no two rows of fallback_memory have the same normalized_question.
C13_NormalizedQuestionUnique ==
    \A i, j \in 1..Len(db) :
        db[i].normalized_question = db[j].normalized_question => i = j

(***************************************************************************)
(* Properties of kb_auto_refresher's except clause                         *)
(***************************************************************************)
\* C14: an exception caught in the loop of kb_auto_refresher counts as a
\* failed load: failure_count goes up by one and the wait that follows is
\* min(60 * 2^failure_count, 1000).
C14_InternalErrorBacksOff ==
    [][(IsRefreshStep /\ load_ret' = "raised")
         => /\ failure_count' = failure_count + 1
            /\ wait' = Min(60 * (2 ^ failure_count'), 1000)]_vars

(***************************************************************************)
(* kb_auto_refresher running forever                                       *)
(***************************************************************************)
\* what a pass of the loop may meet: the sheet serves a feed, the fetch or
\* the parse fails, or something in the loop body raises
SheetStates == {"up", "down", "broken"}

\* the loop ended by an exception it has caught
LoopEndsOnError(ret) == ret # "raised"

\* line 195: `while True`
LoopContinues(ret) == TRUE

\* the world changes between two passes
SheetChanges ==
    /\ sheet' \in SheetStates \ {sheet}
    /\ UNCHANGED <<knowledge_base, kb_last_loaded, load_ret, failure_count, wait, iter,
                   api_keys, db, fa, co, co_prev>>
    /\ UNCHANGED <<heap, kb_ref, full, kb_lock, loader, readers, db_lock, unknown_lock>>

\* a pass whose load succeeds, the sleep of line 199 included; the clock is
\* counted in loads
PassLoads ==
    /\ sheet = "up"
    /\ iter < MaxIter
    /\ LoopContinues(load_ret)
    /\ \E feed \in Feeds : load_knowledge_base("ok", feed, kb_last_loaded + 1)
    /\ AfterLoad(load_ret')
    /\ iter' = iter + 1
    /\ UNCHANGED <<api_keys, db, fa, co, co_prev>>
    /\ UNCHANGED threadVars

\* a pass whose load fails, the sleep of line 204 included
PassFails ==
    /\ sheet = "down"
    /\ LoopContinues(load_ret)
    /\ RefreshFails

\* a pass that ends in the except clause, the sleep of line 207 included
PassRaises ==
    /\ sheet = "broken"
    /\ LoopContinues(load_ret)
    /\ RefreshError

Pass == PassLoads \/ PassFails \/ PassRaises

NextLive == SheetChanges \/ PassLoads \/ PassFails \/ PassRaises

\* the thread is scheduled and every time.sleep returns
SpecLive == InitRefresher /\ [][NextLive]_vars /\ WF_vars(Pass)

\* C15: the loop never ends and never stays stuck: every pass, however it
\* ended, is followed by another pass, and with the sheet up the next pass
\* loads it and brings failure_count to 0 (passes are counted up to MaxIter).
C15_RefresherKeepsLoading ==
    \A n \in 0..(MaxIter - 1) :
        /\ (iter = n) ~> (iter = n + 1)
        /\ (iter = n /\ sheet = "up")
              ~> (sheet # "up" \/ (iter > n /\ load_ret = "True" /\ failure_count = 0))

C15_Witness ==
    /\ iter = 4
    /\ kb_last_loaded = 1
    /\ load_ret = "True"
    /\ failure_count = 0
    /\ wait = KB_REFRESH_INTERVAL

(***************************************************************************)
(* handle_message as a thread: find_answer after the knowledge base, the   *)
(* cache functions and the adapters statement by statement                 *)
(***************************************************************************)
handlerFixed ==
    <<knowledge_base, kb_last_loaded, load_ret, heap, kb_ref, full, loader,
      failure_count, wait, iter, api_keys, fa, co, co_prev, sheet>>

\* the answers a provider gives in these runs
HandlerAnswers == {"x", "y"}

\* kb_lock held on after the scan, for the rest of find_answer
LockHeldAfterScan(r) == r

\* lines 459-475: the `with kb_lock` block ends with the loop
LockAfterScan(r) == "none"

\* the scoring loop reading the table itself
LiveTable(copy, table) == table

\* lines 83-87: `rows = cursor.fetchall()`, the list the loop iterates
ScoredRows(copy, table) == copy

\* lines 452-454 in a handler: (None, None) is returned and the question logged
HandlerReturnsEmpty(r) ==
    /\ readers[r].pc = "pass2"
    /\ Norm(readers[r].q) = <<>>
    /\ readers' = [readers EXCEPT ![r].pc = "log"]
    /\ UNCHANGED <<kb_lock, db, db_lock, unknown_lock>>
    /\ UNCHANGED handlerFixed

\* lines 475-480: the second scan ends without a return
HandlerEndsScan(r) ==
    LET me == readers[r]
        scan == NormScan(heap[me.it], 1, Norm(me.q), ZeroScore, 0)
    IN  /\ me.pc = "scan2"
        /\ me.idx >= Len(heap[me.it])
        /\ kb_lock' = LockAfterScan(r)
        /\ readers' = [readers EXCEPT ![r] =
                          IF KbAccepts(scan.best_score, scan.best_match)
                          THEN IdleReader
                          ELSE [@ EXCEPT !.pc = "local1"]]
        /\ UNCHANGED <<db, db_lock, unknown_lock>>
        /\ UNCHANGED handlerFixed

\* lines 67, 80 and 112: the thread enters `with db_lock`
HandlerLocksDb(r) ==
    /\ readers[r].pc \in {"local1", "local2", "save"}
    /\ db_lock = "none"
    /\ db_lock' = r
    /\ readers' = [readers EXCEPT ![r].pc =
                      CASE @ = "local1" -> "exact" [] @ = "local2" -> "fetchall"
                        [] OTHER -> "insert"]
    /\ UNCHANGED <<kb_lock, db, unknown_lock>>
    /\ UNCHANGED handlerFixed

\* the exact SELECT whose exception leaves the block with db_lock still held
HandlerSelectsExactLeaks(r) ==
    LET me == readers[r]
        hits == {i \in 1..Len(db) : db[i].normalized_question = Norm(me.q)}
    IN  /\ me.pc = "exact"
        /\ \E store_error \in BOOLEAN :
              /\ db_lock' = IF store_error THEN r ELSE "none"
              /\ readers' = [readers EXCEPT ![r] =
                                IF store_error THEN [@ EXCEPT !.pc = "ask", !.prov = "groq"]
                                ELSE IF hits # {} THEN IdleReader
                                ELSE [@ EXCEPT !.pc = "local2"]]
        /\ UNCHANGED <<kb_lock, db, unknown_lock>>
        /\ UNCHANGED handlerFixed

\* lines 68-77: the exact SELECT; a store error is caught at line 101
HandlerSelectsExact(r) ==
    LET me == readers[r]
        hits == {i \in 1..Len(db) : db[i].normalized_question = Norm(me.q)}
    IN  /\ me.pc = "exact"
        /\ db_lock' = "none"
        /\ \E store_error \in BOOLEAN :
              readers' = [readers EXCEPT ![r] =
                             IF store_error THEN [@ EXCEPT !.pc = "ask", !.prov = "groq"]
                             ELSE IF hits # {} THEN IdleReader
                             ELSE [@ EXCEPT !.pc = "local2"]]
        /\ UNCHANGED <<kb_lock, db, unknown_lock>>
        /\ UNCHANGED handlerFixed

\* lines 81-85: every row is fetched into the local list `rows`
HandlerFetchesAll(r) ==
    /\ readers[r].pc = "fetchall"
    /\ db_lock' = "none"
    /\ \E store_error \in BOOLEAN, order \in Perms(Len(db)) :
          LET fetched == [i \in 1..Len(db) |->
                             [normalized_question |-> db[order[i]].normalized_question,
                              answer |-> db[order[i]].answer]]
          IN  readers' = [readers EXCEPT ![r] =
                             IF store_error THEN [@ EXCEPT !.pc = "ask", !.prov = "groq"]
                             ELSE [@ EXCEPT !.pc = "score", !.rows = fetched, !.taken = fetched,
                                            !.idx = 0, !.seen = <<>>,
                                            !.best_score = ZeroScore, !.best_answer = None]]
    /\ UNCHANGED <<kb_lock, db, unknown_lock>>
    /\ UNCHANGED handlerFixed

\* lines 90-94: one turn of the scoring loop
HandlerScores(r) ==
    LET me == readers[r]
        list == ScoredRows(me.rows, [i \in 1..Len(db) |->
                                        [normalized_question |-> db[i].normalized_question,
                                         answer |-> db[i].answer]])
        row == list[me.idx + 1]
        score == Score(Norm(me.q), row.normalized_question)
    IN  /\ me.pc = "score"
        /\ me.idx < Len(list)
        /\ readers' = [readers EXCEPT ![r] =
                          IF ScoreGt(score, me.best_score)
                          THEN [@ EXCEPT !.idx = @ + 1, !.seen = Append(@, row),
                                         !.best_score = score, !.best_answer = row.answer]
                          ELSE [@ EXCEPT !.idx = @ + 1, !.seen = Append(@, row)]]
        /\ UNCHANGED <<kb_lock, db, db_lock, unknown_lock>>
        /\ UNCHANGED handlerFixed

\* lines 96-99 and 481-488: the loop is over
HandlerScored(r) ==
    LET me == readers[r]
    IN  /\ me.pc = "score"
        /\ me.idx >= Len(me.rows)
        /\ readers' = [readers EXCEPT ![r] =
                          IF CacheAccepts(me.best_score) /\ Truthy(me.best_answer)
                          THEN IdleReader
                          ELSE [IdleReader EXCEPT !.pc = "ask", !.q = me.q, !.prov = "groq"]]
        /\ UNCHANGED <<kb_lock, db, db_lock, unknown_lock>>
        /\ UNCHANGED handlerFixed

\* what find_answer does when adapter `prov` has returned None
AfterNoAnswer(me) ==
    CASE me.prov = "groq" -> [me EXCEPT !.pc = "ask", !.prov = "openai"]
      [] me.prov = "openai" -> [me EXCEPT !.pc = "ask", !.prov = "anthropic"]
      [] OTHER -> [me EXCEPT !.pc = "log"]

\* an adapter is called: without its key it returns None, with it
\* requests.post is called
HandlerSendsRequest(r) ==
    /\ readers[r].pc = "ask"
    /\ readers' = [readers EXCEPT ![r] =
                      IF @.prov \in api_keys THEN [@ EXCEPT !.pc = "req"]
                      ELSE AfterNoAnswer(@)]
    /\ UNCHANGED <<kb_lock, db, db_lock, unknown_lock>>
    /\ UNCHANGED handlerFixed

\* requests.post returns or raises.  get_groq_response returns None on a 200
\* without choices and raises NameError otherwise, which find_answer turns
\* into (None, None); the other adapters have an answer to save or return None
HandlerGetsResponse(r) ==
    LET me == readers[r]
    IN  /\ me.pc = "req"
        /\ \/ readers' = [readers EXCEPT ![r] = AfterNoAnswer(me)]
           \/ /\ me.prov = "groq"
              /\ readers' = [readers EXCEPT ![r].pc = "log"]
           \/ /\ me.prov # "groq"
              /\ \E content \in HandlerAnswers :
                    readers' = [readers EXCEPT ![r].pc = "save", ![r].ans = content]
        /\ UNCHANGED <<kb_lock, db, db_lock, unknown_lock>>
        /\ UNCHANGED handlerFixed

\* lines 113-124: the INSERT OR REPLACE; the adapter then returns the answer
HandlerInserts(r) ==
    LET me == readers[r]
    IN  /\ me.pc = "insert"
        /\ \E store_error \in BOOLEAN :
              db' = save_to_local_fallback(db, me.q, me.ans, store_error)
        /\ db_lock' = "none"
        /\ readers' = [readers EXCEPT ![r] = IdleReader]
        /\ UNCHANGED <<kb_lock, unknown_lock>>
        /\ UNCHANGED handlerFixed

\* line 600 and line 227: no answer, log_unknown_question enters
\* `with unknown_lock`
HandlerLocksUnknown(r) ==
    /\ readers[r].pc = "log"
    /\ unknown_lock = "none"
    /\ unknown_lock' = r
    /\ readers' = [readers EXCEPT ![r].pc = "logging"]
    /\ UNCHANGED <<kb_lock, db, db_lock>>
    /\ UNCHANGED handlerFixed

\* lines 228-250: the line is written and the lock released
HandlerLogged(r) ==
    /\ readers[r].pc = "logging"
    /\ unknown_lock' = "none"
    /\ readers' = [readers EXCEPT ![r] = IdleReader]
    /\ UNCHANGED <<kb_lock, db, db_lock>>
    /\ UNCHANGED handlerFixed

\* the handlers while the sheet cannot be fetched: the knowledge base stays
\* as main left it
NextHandlers ==
    \/ LoaderRequest
    \/ LoaderFails
    \/ \E r \in ReaderIds :
          \/ ReaderCalls(r)
          \/ ReaderChecksEmpty(r)
          \/ ReaderStartsScan(r)
          \/ HandlerReturnsEmpty(r)
          \/ HandlerEndsScan(r)
          \/ HandlerLocksDb(r)
          \/ HandlerSelectsExact(r)
          \/ HandlerFetchesAll(r)
          \/ HandlerScores(r)
          \/ HandlerScored(r)
          \/ HandlerSendsRequest(r)
          \/ HandlerGetsResponse(r)
          \/ HandlerInserts(r)
          \/ HandlerLocksUnknown(r)
          \/ HandlerLogged(r)

SpecHandlers == InitSwap /\ [][NextHandlers]_vars

\* a thread with a network call in flight
InFlight(t) == IF t = "loader" THEN loader.pc = "fetch" ELSE readers[t].pc = "req"

\* C16: a thread that has a network call in flight (the fetch of the sheet or
\* a request to a provider) holds none of kb_lock, db_lock and unknown_lock.
C16_NoLockAcrossNetwork ==
    \A t \in ReaderIds \cup {"loader"} :
        InFlight(t) => (kb_lock # t /\ db_lock # t /\ unknown_lock # t)

C16_Witness ==
    /\ loader.pc = "fetch"
    /\ \E r \in ReaderIds : readers[r].pc = "req" /\ readers[r].prov = "anthropic"
    /\ \E r \in ReaderIds : db_lock = r
    /\ db # <<>>

\* the (normalized_question, answer) pairs of the table as it is now
StoredPairs ==
    [i \in 1..Len(db) |->
        [normalized_question |-> db[i].normalized_question, answer |-> db[i].answer]]

\* C19: while a get_local_fallback call is in its scoring loop, the rows it
\* has scored are, in order, the first rows of the one list fetched under
\* db_lock (pairs that were in the table together when the lock was held),
\* whatever has been written to the table since; and the call does not hold
\* db_lock, so a save_to_local_fallback is not kept waiting by the scoring.
C19_ScoresOneSnapshot ==
    \A r \in ReaderIds :
        readers[r].pc = "score" =>
            /\ readers[r].rows = readers[r].taken
            /\ readers[r].idx <= Len(readers[r].taken)
            /\ readers[r].seen = SubSeq(readers[r].taken, 1, readers[r].idx)
            /\ db_lock # r

\* a call has scored a row of its copy, the table has been written since the
\* copy was taken, and another handler holds db_lock
C19_Witness ==
    \E r \in ReaderIds, w \in ReaderIds :
        /\ r # w
        /\ readers[r].pc = "score"
        /\ readers[r].idx >= 1
        /\ Len(StoredPairs) # Len(readers[r].taken)
        /\ db_lock = w

(***************************************************************************)
(* kb_auto_refresher as a thread beside the handler                        *)
(***************************************************************************)
\* what is left alone when the refresher goes to sleep or wakes
sleeperFixed == <<knowledge_base, heap, kb_ref, full, kb_lock, readers,
                  api_keys, db, fa, co, co_prev, sheet, db_lock, unknown_lock>>

\* lines 175-178 and 197-199: the load returns True, the refresher resets
\* the count and sleeps KB_REFRESH_INTERVAL
SleeperLoaded ==
    /\ loader.pc = "stamp"
    /\ kb_last_loaded' = kb_last_loaded + 1
    /\ load_ret' = "True"
    /\ AfterLoad("True")
    /\ iter' = iter + 1
    /\ loader' = [IdleLoader EXCEPT !.pc = "sleep"]
    /\ UNCHANGED sleeperFixed

\* lines 180-188 and 200-204: the load returns False, the refresher sleeps
\* the backoff
SleeperFailed ==
    /\ loader.pc = "fetch"
    /\ load_ret' = "False"
    /\ AfterLoad("False")
    /\ iter' = iter + 1
    /\ loader' = [IdleLoader EXCEPT !.pc = "sleep"]
    /\ UNCHANGED kb_last_loaded
    /\ UNCHANGED sleeperFixed

\* lines 205-207: an exception leaves load_knowledge_base (raised inside one
\* of its except clauses), the refresher sleeps 60 seconds
SleeperRaised ==
    /\ loader.pc = "fetch"
    /\ load_ret' = "raised"
    /\ wait' = 60
    /\ iter' = iter + 1
    /\ loader' = [IdleLoader EXCEPT !.pc = "sleep"]
    /\ UNCHANGED <<kb_last_loaded, failure_count>>
    /\ UNCHANGED sleeperFixed

\* time.sleep returns and `while True` starts the next iteration
SleeperWakes ==
    /\ loader.pc = "sleep"
    /\ iter < MaxIter
    /\ loader' = IdleLoader
    /\ UNCHANGED <<kb_last_loaded, load_ret, failure_count, wait, iter>>
    /\ UNCHANGED sleeperFixed

\* handle_message (line 589) calls find_answer on the event loop, one call
\* at a time
Handler == "r1"

\* the steps of a find_answer call that has started
HandlerRuns ==
    \/ ReaderChecksEmpty(Handler)
    \/ ReaderReturnsEmpty(Handler)
    \/ ReaderNextEntry(Handler)
    \/ ReaderEndsScan(Handler)

NextSleep ==
    \/ LoaderRequest
    \/ LoaderNewList
    \/ LoaderAppend
    \/ LoaderLock
    \/ LoaderSwap
    \/ SleeperLoaded
    \/ SleeperFailed
    \/ SleeperRaised
    \/ SleeperWakes
    \/ ReaderCalls(Handler)
    \/ ReaderStartsScan(Handler)
    \/ HandlerRuns

\* The handler thread keeps running, and gets kb_lock if the lock is free
\* again and again; the refresher, once inside `with kb_lock`, executes the
\* assignment and leaves the block.  Nothing is assumed about the end of a
\* sleep or about the refresher's other steps.
SpecSleep ==
    /\ InitSwap
    /\ [][NextSleep]_vars
    /\ WF_vars(HandlerRuns)
    /\ SF_vars(ReaderStartsScan(Handler))
    /\ WF_vars(LoaderSwap)

\* C20: while kb_auto_refresher sleeps (after a load, after a failure or
\* after an internal error) it holds none of the locks, and a find_answer
\* call that is about to scan the knowledge base gets kb_lock and finishes
\* that scan, also when the refresher never wakes.
C20_SleepBlocksNobody ==
    /\ [](loader.pc = "sleep"
            => (kb_lock # "loader" /\ db_lock # "loader" /\ unknown_lock # "loader"))
    /\ (readers[Handler].pc = "pass1") ~> (readers[Handler].pc \in {"pass2", "idle"})
    /\ (readers[Handler].pc = "pass2") ~> (readers[Handler].pc = "idle")

\* the refresher sleeps the 60 seconds after an internal error, having backed
\* off before, while the handler holds kb_lock in the middle of a scan
C20_Witness ==
    /\ loader.pc = "sleep"
    /\ load_ret = "raised"
    /\ wait = 60
    /\ failure_count >= 1
    /\ kb_lock = Handler
    /\ readers[Handler].pc \in {"scan1", "scan2"}
    /\ readers[Handler].idx >= 1

(***************************************************************************)
(* Properties of the order of the matches                                  *)
(***************************************************************************)
\* entry i has a non-empty normalized question that equals, contains or is
\* contained in the normalized question asked
NormMatches(kb, i, question) ==
    /\ Norm(kb[i].Question) # <<>>
    /\ \/ Norm(kb[i].Question) = Norm(question)
       \/ IsSubstring(Norm(kb[i].Question), Norm(question))
       \/ IsSubstring(Norm(question), Norm(kb[i].Question))

FirstRaw(kb, question) ==
    CHOOSE i \in 1..Len(kb) :
        RawEqual(kb[i], question) /\ \A j \in 1..(i - 1) : ~RawEqual(kb[j], question)

FirstNorm(kb, question) ==
    CHOOSE i \in 1..Len(kb) :
        NormMatches(kb, i, question) /\ \A j \in 1..(i - 1) : ~NormMatches(kb, j, question)

\* what C17 says of one call
FirstMatchWins(kb, call) ==
    IF \E i \in 1..Len(kb) : RawEqual(kb[i], call.q)
    THEN call.answer = kb[FirstRaw(kb, call.q)].Response /\ call.source = ExactTier
    ELSE (\E i \in 1..Len(kb) : NormMatches(kb, i, call.q))
            => /\ call.answer = kb[FirstNorm(kb, call.q)].Response
               /\ call.source = ExactTier
               /\ call.how \in {"equal", "contained"}

\* C17 as stated: among the entries equal to the question as raw text the
\* first wins; when there is none, the first entry whose normalized question
\* is non-empty and equals, contains or is contained in the normalized
\* question is returned with the exact tier, whatever comes after it.
C17_FirstMatchWins ==
    [][IsFindAnswerStep => FirstMatchWins(knowledge_base, fa')]_vars

\* C17 amended: the same for a question whose normalized form is not empty;
\* an empty normalized question is contained in every entry and matches none.
C17_FirstMatchWinsNonEmpty ==
    [][(IsFindAnswerStep /\ Norm(fa'.q) # <<>>) => FirstMatchWins(knowledge_base, fa')]_vars

C17_Witness ==
    /\ fa.called
    /\ fa.how = "contained"
    /\ Len(knowledge_base) = 2
    /\ fa.answer = knowledge_base[1].Response
    /\ Norm(knowledge_base[2].Question) = Norm(fa.q)
    /\ fa.answer # knowledge_base[2].Response

(***************************************************************************)
(* The two fuzzy paths on questions of twenty letters                      *)
(***************************************************************************)
Row_85 == [Question |-> K_85, Response |-> "r1"]
Row_90 == [Question |-> K_90, Response |-> "r2"]
Row_90b == [Question |-> K_90b, Response |-> "r3"]
Row_80 == [Question |-> K_80, Response |-> "r4"]

LongFeeds ==
    { <<Row_noq, Row_85>>,
      <<Row_noq, Row_80>>,
      <<Row_noq, Row_85, Row_90>>,
      <<Row_noq, Row_90, Row_90b>>,
      <<Row_noq, Row_90b, Row_90>>,
      <<Row_noq, Row_80, Row_85>>,
      <<Row_noq, Row_punct, Row_80>> }

\* load_knowledge_base succeeds on one of these feeds
LongLoad ==
    /\ ~fa.called
    /\ kb_last_loaded < MaxTime
    /\ \E feed \in LongFeeds : load_knowledge_base("ok", feed, kb_last_loaded + 1)
    /\ UNCHANGED <<failure_count, wait, iter, api_keys, db, fa, co, co_prev>>
    /\ UNCHANGED threadVars

\* save_to_local_fallback of a long question
LongSave ==
    /\ \E question \in LongTexts \ {Q_long}, answer \in HandlerAnswers :
          /\ db' = save_to_local_fallback(db, question, answer, FALSE)
          /\ Len(db') <= MaxRows
          /\ co' = [op |-> "save", q |-> question, a |-> answer, ret |-> None, err |-> FALSE]
    /\ UNCHANGED co_prev
    /\ UNCHANGED <<knowledge_base, kb_last_loaded, load_ret, failure_count, wait, iter,
                   api_keys, fa>>
    /\ UNCHANGED threadVars

\* get_local_fallback(Q_long); fetched: the rows in the order the SELECT of
\* line 83 returned them
LongGet ==
    /\ \E order \in Perms(Len(db)) :
          co' = [op |-> "get", q |-> Q_long, a |-> None,
                 ret |-> get_local_fallback(db, Q_long, FALSE, order), err |-> FALSE,
                 fetched |-> [i \in 1..Len(db) |-> db[order[i]]]]
    /\ UNCHANGED co_prev
    /\ UNCHANGED <<knowledge_base, kb_last_loaded, load_ret, failure_count, wait, iter,
                   api_keys, db, fa>>
    /\ UNCHANGED threadVars

\* find_answer(Q_long)
LongFind ==
    /\ ~fa.called
    /\ \E o \in find_answer(knowledge_base, db, api_keys, Q_long) :
          /\ fa' = o.call
          /\ db' = o.rows
    /\ UNCHANGED <<knowledge_base, kb_last_loaded, load_ret, failure_count, wait, iter,
                   api_keys, co, co_prev>>
    /\ UNCHANGED threadVars

\* the process runs without any provider key
InitFuzzy ==
    /\ Init
    /\ api_keys = {}

NextFuzzy == LongLoad \/ LongSave \/ LongGet \/ LongFind \/ Reply

SpecFuzzy == InitFuzzy /\ [][NextFuzzy]_vars

\* the first index at which a sequence of scores has its maximum
FirstBest(scores) ==
    CHOOSE i \in 1..Len(scores) :
        /\ \A j \in 1..Len(scores) : ScoreGe(scores[i], scores[j])
        /\ \A j \in 1..(i - 1) : ScoreGt(scores[i], scores[j])

KbScores(kb, question) ==
    [i \in 1..Len(kb) |-> Score(Norm(question), Norm(kb[i].Question))]

RowScores(rows, question) ==
    [i \in 1..Len(rows) |-> Score(Norm(question), rows[i].normalized_question)]

\* C18: in find_answer, when no entry matches by equality or containment, and
\* in get_local_fallback, when no row has the normalized question itself, a
\* match is accepted exactly when the best score of the records is at least
\* SIMILARITY_THRESHOLD (85/100 itself included), and the answer is that of
\* the first record that has the best score.
C18_FuzzyAcceptance ==
    [][/\ (/\ IsFindAnswerStep
           /\ ~\E i \in 1..Len(knowledge_base) :
                  RawEqual(knowledge_base[i], fa'.q) \/ NormMatches(knowledge_base, i, fa'.q))
          => LET scores == KbScores(knowledge_base, fa'.q)
                 accepted == /\ knowledge_base # <<>>
                             /\ ScoreGe(scores[FirstBest(scores)], SIMILARITY_THRESHOLD)
             IN  /\ (fa'.how = "fuzzy") <=> accepted
                 /\ accepted => fa'.answer = knowledge_base[FirstBest(scores)].Response
       /\ (/\ co'.op = "get"
           /\ co' # co
           /\ ~\E i \in 1..Len(db) : db[i].normalized_question = Norm(co'.q))
          => LET scores == RowScores(co'.fetched, co'.q)
                 accepted == /\ co'.fetched # <<>>
                             /\ ScoreGe(scores[FirstBest(scores)], SIMILARITY_THRESHOLD)
             IN  /\ (co'.ret # None) <=> accepted
                 /\ accepted => co'.ret = co'.fetched[FirstBest(scores)].answer]_vars

C18_Witness ==
    /\ fa.called
    /\ fa.how = "fuzzy"
    /\ Len(knowledge_base) = 1
    /\ Score(Norm(fa.q), Norm(knowledge_base[1].Question)) = [num |-> 34, den |-> 40]
    /\ co.op = "get"
    /\ Len(db) = 2
    /\ Score(Norm(co.q), db[1].normalized_question) = Score(Norm(co.q), db[2].normalized_question)
    /\ db[1].answer # db[2].answer
    /\ co.ret # None

(***************************************************************************)
(* The cache over a sequence of calls                                      *)
(***************************************************************************)
\* C21: the table changes only in a find_answer call in which a provider was
\* sent a request and gave the answer the call returns, and then holds the row
\* (question, normalized question, answer) of that call; and every normalized
\* question that has a row with an answer before a step has one after it.
C21_CacheOnlyGrows ==
    [][/\ db' # db
            => /\ IsFindAnswerStep
               /\ fa'.source \in Providers
               /\ Truthy(fa'.answer)
               /\ fa'.reqs # <<>>
               /\ fa'.reqs[Len(fa'.reqs)] = fa'.source
               /\ \E j \in 1..Len(db') :
                     db'[j] = [question |-> fa'.q, normalized_question |-> Norm(fa'.q),
                               answer |-> fa'.answer]
       /\ \A i \in 1..Len(db) :
             \E j \in 1..Len(db') :
                 /\ db'[j].normalized_question = db[i].normalized_question
                 /\ Truthy(db'[j].answer)]_vars

\* a provider has answered a question whose normalized form was in the table
\* already (the read of the table had failed), and the table has both rows
C21_Witness ==
    /\ fa.called
    /\ fa.source = "anthropic"
    /\ fa.local_err
    /\ ~fa.save_err
    /\ Len(db) = 2
    /\ db[1].normalized_question = db[2].normalized_question
    /\ db[1].question # db[2].question
    /\ db[2].question = fa.q

\* the rows of the table that have normalized question n
RowsFor(rows, n) == {i \in 1..Len(rows) : rows[i].normalized_question = n}

\* the row written last among them (a write puts its row at the end)
LastRowFor(rows, n) == CHOOSE i \in RowsFor(rows, n) : \A j \in RowsFor(rows, n) : j <= i

\* find_answer is called with question q while the last write for q's
\* normalized form was the row of a provider's answer to q itself
ProviderAnswered(rows, q) ==
    /\ RowsFor(rows, Norm(q)) # {}
    /\ rows[LastRowFor(rows, Norm(q))].question = q

\* C22: a find_answer(q) made when the last cache write for q's normalized
\* form was a provider's answer a to q, while the knowledge base does not
\* match q and the store raises no error, returns a from the cache (source
\* "local"), calls no provider and leaves the table as it is.
C22_ProviderAnswerIsCached ==
    [][(/\ IsFindAnswerStep
        /\ ~KbWouldMatch(knowledge_base, fa'.q)
        /\ ProviderAnswered(db, fa'.q)
        /\ ~fa'.local_err)
         => /\ fa'.source = "local"
            /\ fa'.answer = db[LastRowFor(db, Norm(fa'.q))].answer
            /\ fa'.calls = <<>>
            /\ db' = db]_vars

\* the same when the provider's row is the only one with that normalized
\* question
C22_CachedWhenKeyIsUnique ==
    [][(/\ IsFindAnswerStep
        /\ ~KbWouldMatch(knowledge_base, fa'.q)
        /\ ProviderAnswered(db, fa'.q)
        /\ Cardinality(RowsFor(db, Norm(fa'.q))) = 1
        /\ ~fa'.local_err)
         => /\ fa'.source = "local"
            /\ fa'.answer = db[LastRowFor(db, Norm(fa'.q))].answer
            /\ fa'.calls = <<>>
            /\ db' = db]_vars

(***************************************************************************)
(* The reads of the knowledge base within one find_answer call             *)
(***************************************************************************)
\* C23: the reads of one find_answer call see one snapshot.  The call that
\* found the knowledge base non-empty at line 442 starts its raw scan on a
\* non-empty list, and the call whose raw scan has read entries starts its
\* normalized scan on the list the raw scan iterated.
C23_OneSnapshotPerCall ==
    [][\A r \in ReaderIds :
          /\ (readers[r].pc = "pass1" /\ readers'[r].pc = "scan1")
                => heap[readers'[r].it] # <<>>
          /\ (readers[r].pc = "pass2" /\ readers[r].seen # <<>> /\ readers'[r].pc = "scan2")
                => readers'[r].it = readers[r].it]_vars

(***************************************************************************)
(* The three locks: the refresher's loads beside a handler                 *)
(***************************************************************************)
\* lines 449-452: the raw scan ends without a match and its `with kb_lock`
\* block is left
HandlerEndsRawScan(r) ==
    /\ readers[r].pc = "scan1"
    /\ ReaderEndsScan(r)

\* the statements of the handler other than entering a `with` block and
\* other than the call of find_answer itself
HandlerGoesOn ==
    \/ ReaderChecksEmpty(Handler)
    \/ ReaderNextEntry(Handler)
    \/ HandlerEndsRawScan(Handler)
    \/ HandlerReturnsEmpty(Handler)
    \/ HandlerEndsScan(Handler)
    \/ HandlerSelectsExact(Handler)
    \/ HandlerFetchesAll(Handler)
    \/ HandlerScores(Handler)
    \/ HandlerScored(Handler)
    \/ HandlerSendsRequest(Handler)
    \/ HandlerGetsResponse(Handler)
    \/ HandlerInserts(Handler)
    \/ HandlerLogged(Handler)

\* the handler enters a `with` block
HandlerEnters ==
    \/ ReaderStartsScan(Handler)
    \/ HandlerLocksDb(Handler)
    \/ HandlerLocksUnknown(Handler)

\* the statements of load_knowledge_base after the response has arrived,
\* other than entering `with kb_lock`
LoaderGoesOn ==
    \/ LoaderAppend
    \/ LoaderSwap
    \/ LoaderReturns

\* the loads whose request is answered (a load whose request fails returns
\* at lines 180-188 without reaching a `with` block) beside the handler
NextLocks ==
    \/ LoaderRequest
    \/ LoaderNewList
    \/ LoaderLock
    \/ LoaderGoesOn
    \/ ReaderCalls(Handler)
    \/ HandlerEnters
    \/ HandlerGoesOn

\* Each thread keeps running, a request to a provider returns or raises (it
\* has a timeout, line 382), and a thread that waits for a lock which is free
\* again and again gets it.  Nothing is assumed about when a handler is
\* called, when a load begins or when the sheet responds.
SpecLocks ==
    /\ InitSwap
    /\ [][NextLocks]_vars
    /\ WF_vars(HandlerGoesOn)
    /\ SF_vars(HandlerEnters)
    /\ WF_vars(LoaderGoesOn)
    /\ SF_vars(LoaderLock)

Threads == ReaderIds \cup {"loader"}

\* the locks thread t holds
Held(t) ==
    {l \in {"kb_lock", "db_lock", "unknown_lock"} :
        \/ l = "kb_lock" /\ kb_lock = t
        \/ l = "db_lock" /\ db_lock = t
        \/ l = "unknown_lock" /\ unknown_lock = t}

\* thread t is in no call that takes a lock, or in one that has not yet got
\* the sheet's response
Outside(t) ==
    IF t = "loader" THEN loader.pc \in {"idle", "fetch"} ELSE readers[t].pc = "idle"

\* C24: no thread ever holds two of kb_lock, db_lock and unknown_lock, and a
\* thread outside its calls holds none; every call that has begun comes to
\* its end, whichever way its blocks are left (end of block, return or
\* exception), so every lock taken is released and the calls never wait for
\* each other for ever.
C24_LocksNeverNest ==
    /\ [](\A t \in Threads :
             /\ Cardinality(Held(t)) <= 1
             /\ Outside(t) => Held(t) = {})
    /\ []<>Outside(Handler)
    /\ []<>Outside("loader")

\* the handler is inside `with db_lock` for its INSERT, after the read of the
\* cache had raised, while the loader is inside `with kb_lock`
C24_Witness ==
    /\ loader.pc = "swap"
    /\ kb_lock = "loader"
    /\ db_lock = Handler
    /\ readers[Handler].pc = "insert"
    /\ db # <<>>

====
